---- MODULE Spec2Model ----
(***************************************************************************)
(* Model of dca.py: one StrategyRunner.run of a Strategy on an Exchange.   *)
(* The run is cut at its blocking Exchange facade calls: every attempt of  *)
(* a facade call is one step, and the code of run between two facade calls *)
(* is one step.  Spec is one run in full detail.  PoolSpec is __main__: the *)
(* Exchange objects, the submissions to the ThreadPoolExecutor and the runs *)
(* of all submitted units on the shared exchange accounts, each run reduced *)
(* to its balance read and its per-pair outcomes.                           *)
(***************************************************************************)
EXTENDS Integers, Sequences, FiniteSets, TLC

\* ---------------------------------------------------------------- bounds
MaxAssets == 3      \* longest strategy.assets list
MaxHalves == 5      \* free balances are 0 .. MaxHalves half-amounts
MaxTrades == 1      \* longest fetch_my_trades answer
MaxAsk == 1         \* largest ticker["ask"]
MaxStrategies == 3  \* most strategies in the strategy file

\* ------------------------------------------------------------- constants
NUMBER_OF_NETWORK_ATTEMPTS == 5
max_workers == 5
Precision == 100000000          \* "{:.8f}": 8 decimal places

\* ---------------------------------------------------------------- inputs
Symbols == <<"BTC", "ETH", "ADA">>
Amounts == {2, 10}

\* asset lists of every length up to MaxAssets, cycling over the first k
\* symbols (k = 1 gives repeated assets, k = 3 gives distinct ones)
AssetLists ==
  { [i \in 1..n |-> Symbols[((i - 1) % k) + 1]] : n \in 0..MaxAssets, k \in 1..3 }

\* free balances: every multiple of half an amount, so that balances
\* strictly between two multiples of the amount occur
Balances(a) == { (h * a) \div 2 : h \in 0..MaxHalves }

VARIABLES
  strategy,               \* Strategy: period, amount, base_asset, assets
  runner,                 \* StrategyRunner: which callbacks are not None
  free,                   \* the account's free balance of base_asset
  pc,                     \* where run is
  idx,                    \* position of the for-loop in order_pairs_to_create
  attempt_number,         \* attempts made by the facade call in progress
  call_status,            \* "idle", "calling", "returned", "RetryError"
  call_result,            \* <<>> or <<value returned by the facade call>>
  quote_balance,          \* balances[base_asset]["free"] as read by run
  order_pairs_to_create,
  created_orders,         \* local of run: bound or not, and its value
  amount_to_buy,
  orders,
  trace,                  \* per allocated position: what run did there
  gate_call,              \* the latest should_execute_buy_callback call: its
                          \* arguments, and what get_buy_orders had answered
  no_funds_calls,         \* arguments of on_balance_no_available_callback
  order_created_calls,    \* arguments of on_order_created_callback
  exchange_orders,        \* market orders the exchange has accepted from the
                          \* buy call in progress
  \* ---- __main__ (PoolSpec)
  main_pc,                \* "build", "submit", "wait", "exit" ("idle" in Spec)
  strategies,             \* the Strategy objects of the strategy file
  exchanges,              \* list(set(exchanges)) of line 327
  futures,                \* the submitted units, in submission order
  account                 \* exchange name -> free balance of the account

poolvars == <<main_pc, strategies, exchanges, futures, account>>

runvars == <<strategy, runner, free, pc, idx, attempt_number, call_status,
          call_result, quote_balance, order_pairs_to_create, created_orders,
          amount_to_buy, orders, trace, gate_call, no_funds_calls,
          order_created_calls, exchange_orders>>

vars == <<runvars, poolvars>>

ExchangeName == "binance"

\* ---------------------------------------------------------------- Strategy
\* mutant of get_pairs: every pair is built from the first asset
get_pairsFirst(s) == [i \in 1..Len(s.assets) |-> s.assets[1] \o "/" \o s.base_asset]

get_pairs(s) == [i \in 1..Len(s.assets) |-> s.assets[i] \o "/" \o s.base_asset]

\* ---------------------------------------------------------------- helpers
NoTrace == [hist |-> "none", gate |-> "none", price |-> "none", buy |-> "none"]

Unbound == [bound |-> FALSE, value |-> <<>>]

\* the trades fetch_my_trades can answer for a pair
Trade(pair, b) == [symbol |-> pair, isBuyer |-> b]
TradeLists(pair) ==
  UNION { [1..n -> {Trade(pair, TRUE), Trade(pair, FALSE)}] : n \in 0..MaxTrades }

IsBuyer(order) == order.isBuyer = TRUE

\* "{:.8f}".format(amount / ask), in units of 10^-8, rounded to nearest
FormatAmount(amt, ask) ==
  LET q == (amt * Precision) \div ask
      r == (amt * Precision) % ask
  IN  q + (IF 2 * r >= ask THEN 1 ELSE 0)

\* ------------------------------------------------------------- allocation
RECURSIVE AllocFrom(_, _, _, _, _)
AllocFrom(pairs, i, amt, bal, aux_balance) ==
  IF i > Len(pairs) THEN <<>>
  ELSE IF (aux_balance + amt) <= bal
       THEN <<pairs[i]>> \o AllocFrom(pairs, i + 1, amt, bal, aux_balance + amt)
       ELSE AllocFrom(pairs, i + 1, amt, bal, aux_balance)

\* mutants of Allocate: the balance test dropped, and `<` for `<=`
AllocateAll(pairs, amt, bal) == pairs

RECURSIVE AllocFromStrict(_, _, _, _, _)
AllocFromStrict(pairs, i, amt, bal, aux_balance) ==
  IF i > Len(pairs) THEN <<>>
  ELSE IF (aux_balance + amt) < bal
       THEN <<pairs[i]>> \o AllocFromStrict(pairs, i + 1, amt, bal, aux_balance + amt)
       ELSE AllocFromStrict(pairs, i + 1, amt, bal, aux_balance)

AllocateStrict(pairs, amt, bal) == AllocFromStrict(pairs, 1, amt, bal, 0)

Allocate(pairs, amt, bal) == AllocFrom(pairs, 1, amt, bal, 0)

\* mutants of InsufficientFunds: tests for an empty balance only, and `<=`
InsufficientFundsEmpty(bal, amt) == bal <= 0

InsufficientFundsInclusive(bal, amt) == bal <= amt

InsufficientFunds(bal, amt) == bal < amt

\* ------------------------------------------------------------ tenacity
\* mutant of stop_after_attempt: off by one
stop_after_attemptLate(n) == n > NUMBER_OF_NETWORK_ATTEMPTS

stop_after_attempt(n) == n >= NUMBER_OF_NETWORK_ATTEMPTS

\* ---------------------------------------------------------- control flow
Call(state, i) ==
  /\ pc' = state
  /\ idx' = i
  /\ attempt_number' = 0
  /\ call_status' = "calling"
  /\ call_result' = <<>>

Return(state) ==
  /\ pc' = state
  /\ idx' = idx
  /\ attempt_number' = 0
  /\ call_status' = "idle"
  /\ call_result' = <<>>

\* the for-loop over order_pairs_to_create moves on, or ends
LoopNext ==
  IF idx < Len(order_pairs_to_create) THEN Call("FetchHistory", idx + 1)
  ELSE Return("Done")

Init ==
  /\ strategy \in { [period |-> "daily", amount |-> a, base_asset |-> "USDT",
                     assets |-> l] : a \in Amounts, l \in AssetLists }
  /\ runner \in [on_balance_no_available_callback : BOOLEAN,
                 should_execute_buy_callback : BOOLEAN,
                 on_order_created_callback : BOOLEAN]
  /\ free \in Balances(strategy.amount)
  /\ pc = "FetchingBalance"
  /\ idx = 0
  /\ attempt_number = 0
  /\ call_status = "calling"
  /\ call_result = <<>>
  /\ quote_balance = 0
  /\ order_pairs_to_create = <<>>
  /\ created_orders = Unbound
  /\ amount_to_buy = 0
  /\ orders = <<>>
  /\ trace = <<>>
  /\ gate_call = <<>>
  /\ no_funds_calls = <<>>
  /\ order_created_calls = <<>>
  /\ exchange_orders = 0
  /\ main_pc = "idle"
  /\ strategies = <<>>
  /\ exchanges = <<>>
  /\ futures = <<>>
  /\ account = <<>>

\* ------------------------------------------------------ Exchange facade
\* one attempt of the tenacity.Retrying loop of a facade method
Retrying(state, results) ==
  /\ pc = state
  /\ call_status = "calling"
  /\ attempt_number' = attempt_number + 1
  /\ \/ /\ call_status' = "returned"
        /\ \E r \in results : call_result' = <<r>>
     \/ /\ call_status' = IF stop_after_attempt(attempt_number + 1)
                          THEN "RetryError" ELSE "calling"
        /\ call_result' = <<>>
  /\ UNCHANGED <<strategy, runner, free, pc, idx, quote_balance,
                 order_pairs_to_create, created_orders, amount_to_buy,
                 orders, trace, gate_call, no_funds_calls, order_created_calls>>
  /\ UNCHANGED poolvars

get_balances ==
  /\ Retrying("FetchingBalance", {free})
  /\ UNCHANGED exchange_orders

get_buy_orders ==
  /\ Retrying("FetchHistory",
              IF pc = "FetchHistory"
              THEN { SelectSeq(t, IsBuyer) : t \in TradeLists(order_pairs_to_create[idx]) }
              ELSE {})
  /\ UNCHANGED exchange_orders

get_price ==
  /\ Retrying("FetchPrice", { [ask |-> a] : a \in 1..MaxAsk })
  /\ UNCHANGED exchange_orders

\* an attempt of buy whose create_order returns the order the exchange
\* accepted, or raises with no order placed
buy ==
  /\ Retrying("SubmitOrder",
              IF pc = "SubmitOrder"
              THEN { [symbol |-> order_pairs_to_create[idx], amount |-> amount_to_buy] }
              ELSE {})
  /\ exchange_orders' = IF call_status' = "returned" THEN exchange_orders + 1
                        ELSE exchange_orders

\* an attempt of buy whose create_order raises although the exchange has
\* accepted the order (the answer is lost or times out): the `with attempt`
\* block records the exception and the loop of lines 105-115 tries again
buy_response_lost ==
  /\ pc = "SubmitOrder"
  /\ call_status = "calling"
  /\ attempt_number' = attempt_number + 1
  /\ call_status' = IF stop_after_attempt(attempt_number + 1)
                    THEN "RetryError" ELSE "calling"
  /\ call_result' = <<>>
  /\ exchange_orders' = exchange_orders + 1
  /\ UNCHANGED <<strategy, runner, free, pc, idx, quote_balance,
                 order_pairs_to_create, created_orders, amount_to_buy,
                 orders, trace, gate_call, no_funds_calls, order_created_calls>>
  /\ UNCHANGED poolvars

\* ------------------------------------------------------- StrategyRunner.run
\* mutant of OnBalanceRetryError: the missing balance is reported as no funds
OnBalanceRetryErrorReport ==
  /\ Return("BalanceFailed")
  /\ no_funds_calls' =
       IF runner.on_balance_no_available_callback
       THEN Append(no_funds_calls,
                   <<ExchangeName, 0, strategy.amount, strategy.base_asset>>)
       ELSE no_funds_calls
  /\ UNCHANGED <<quote_balance, order_pairs_to_create, trace>>

\* lines 148-152: `return` when get_balances raised RetryError
OnBalanceRetryError ==
  /\ Return("BalanceFailed")
  /\ UNCHANGED <<quote_balance, order_pairs_to_create, trace, no_funds_calls>>

\* lines 146-190: after get_balances, up to the first get_buy_orders
AfterBalance ==
  /\ pc = "FetchingBalance"
  /\ call_status \in {"returned", "RetryError"}
  /\ IF call_status = "RetryError"
     THEN OnBalanceRetryError
     ELSE LET bal == call_result[1] IN
          /\ quote_balance' = bal
          /\ IF InsufficientFunds(bal, strategy.amount)
             THEN /\ no_funds_calls' =
                       IF runner.on_balance_no_available_callback
                       THEN Append(no_funds_calls,
                                   <<ExchangeName, bal, strategy.amount, strategy.base_asset>>)
                       ELSE no_funds_calls
                  /\ Return("NoFunds")
                  /\ UNCHANGED <<order_pairs_to_create, trace>>
             ELSE LET alloc == Allocate(get_pairs(strategy), strategy.amount, bal) IN
                  /\ order_pairs_to_create' = alloc
                  /\ trace' = [i \in 1..Len(alloc) |-> NoTrace]
                  /\ IF Len(alloc) > 0 THEN Call("FetchHistory", 1) ELSE Return("Done")
                  /\ UNCHANGED no_funds_calls
  /\ UNCHANGED <<strategy, runner, free, created_orders, amount_to_buy, orders,
                 gate_call, order_created_calls, exchange_orders>>
  /\ UNCHANGED poolvars

\* mutants of the three `continue` branches: the loop is left instead
OnGateFalseBreak == Return("Done")

OnPriceRetryErrorBreak == Return("Done")

OnBuyRetryErrorBreak == Return("Done")

\* mutant of OnGateFalse: the refused pair falls through to its price fetch
OnGateFalseFallThrough == Call("FetchPrice", idx)

\* line 213: `continue` of a pair the predicate refuses
OnGateFalse == LoopNext

\* lines 218-223: `continue` when get_price raised RetryError
OnPriceRetryError == LoopNext

\* lines 239-244: `continue` when buy raised RetryError
OnBuyRetryError == LoopNext

\* lines 196-217: after get_buy_orders, the predicate, up to get_price
AfterHistory ==
  /\ pc = "FetchHistory"
  /\ call_status \in {"returned", "RetryError"}
  /\ LET ok == call_status = "returned"
         \* except RetryError: pass  -- created_orders keeps what it had
         co == IF ok THEN [bound |-> TRUE, value |-> call_result[1]]
               ELSE created_orders
         t1 == [trace EXCEPT ![idx].hist = IF ok THEN "ok" ELSE "RetryError"]
     IN
     /\ created_orders' = co
     /\ IF ~runner.should_execute_buy_callback
        THEN /\ trace' = t1
             /\ Call("FetchPrice", idx)
             /\ UNCHANGED gate_call
        ELSE IF ~co.bound
        THEN \* reading the unassigned local raises UnboundLocalError
             /\ trace' = t1
             /\ Return("Crashed")
             /\ UNCHANGED gate_call
        ELSE \E g \in BOOLEAN :
             /\ trace' = [t1 EXCEPT ![idx].gate = IF g THEN "true" ELSE "false"]
             /\ gate_call' = << [pair |-> order_pairs_to_create[idx],
                                 exchange |-> ExchangeName,
                                 period |-> strategy.period,
                                 orders |-> co.value,
                                 fetched |-> call_result] >>
             /\ IF g THEN Call("FetchPrice", idx) ELSE OnGateFalse
  /\ UNCHANGED <<strategy, runner, free, quote_balance, order_pairs_to_create,
                 amount_to_buy, orders, no_funds_calls, order_created_calls,
                 exchange_orders>>
  /\ UNCHANGED poolvars

\* lines 216-231: after get_price, up to buy
AfterPrice ==
  /\ pc = "FetchPrice"
  /\ call_status \in {"returned", "RetryError"}
  /\ IF call_status = "RetryError"
     THEN /\ trace' = [trace EXCEPT ![idx].price = "RetryError"]
          /\ OnPriceRetryError
          /\ UNCHANGED amount_to_buy
     ELSE /\ trace' = [trace EXCEPT ![idx].price = "ok"]
          /\ amount_to_buy' = FormatAmount(strategy.amount, call_result[1].ask)
          /\ Call("SubmitOrder", idx)
  /\ UNCHANGED <<strategy, runner, free, quote_balance, order_pairs_to_create,
                 created_orders, orders, gate_call, no_funds_calls,
                 order_created_calls, exchange_orders>>
  /\ UNCHANGED poolvars

\* mutant of NotifyOrderCreated: the hook is called twice for the order
NotifyOrderCreatedTwice(calls, order) ==
  IF runner.on_order_created_callback
  THEN Append(Append(calls, <<ExchangeName, order>>), <<ExchangeName, order>>)
  ELSE calls

\* lines 237-238: on_order_created_callback(exchange.name, order), if any
NotifyOrderCreated(calls, order) ==
  IF runner.on_order_created_callback
  THEN Append(calls, <<ExchangeName, order>>)
  ELSE calls

\* lines 230-246: after buy, to the next pair or the end of run
AfterBuy ==
  /\ pc = "SubmitOrder"
  /\ call_status \in {"returned", "RetryError"}
  /\ IF call_status = "RetryError"
     THEN /\ trace' = [trace EXCEPT ![idx].buy = "RetryError"]
          /\ OnBuyRetryError
          /\ UNCHANGED <<orders, order_created_calls>>
     ELSE LET order == call_result[1] IN
          /\ trace' = [trace EXCEPT ![idx].buy = "ok"]
          /\ orders' = Append(orders, order)
          /\ order_created_calls' = NotifyOrderCreated(order_created_calls, order)
          /\ LoopNext
  /\ amount_to_buy' = 0
  /\ exchange_orders' = 0
  /\ UNCHANGED <<strategy, runner, free, quote_balance, order_pairs_to_create,
                 created_orders, gate_call, no_funds_calls>>
  /\ UNCHANGED poolvars

Next ==
  \/ get_balances
  \/ AfterBalance
  \/ get_buy_orders
  \/ AfterHistory
  \/ get_price
  \/ AfterPrice
  \/ buy
  \/ AfterBuy

Spec == Init /\ [][Next]_vars

\* run is one thread: a step that can be taken is taken
FairSpec == Spec /\ WF_vars(Next)

\* the run on an exchange that may accept an order and fail to answer
RetryNext ==
  \/ Next
  \/ buy_response_lost

RetrySpec == Init /\ [][RetryNext]_vars

\* ================================================================ __main__
Range(f) == { f[i] : i \in DOMAIN f }

RECURSIVE SumOver(_, _)
SumOver(f, S) ==
  IF S = {} THEN 0
  ELSE LET x == CHOOSE y \in S : TRUE IN f[x] + SumOver(f, S \ {x})

ExchangeNames == {"binance", "kraken"}
PoolAmount == 10
PoolAssets == <<"BTC">>
PoolFree == PoolAmount
ExchangeLists == << <<"binance">>, <<"binance", "kraken">>, <<"kraken">> >>

\* strategy files of up to MaxStrategies strategies; strategies differ in
\* their exchange lists only, so files are taken up to reordering
StrategyFiles ==
  UNION { { [i \in 1..n |-> [period |-> "daily", amount |-> PoolAmount,
                              base_asset |-> "USDT", assets |-> PoolAssets,
                              exchanges |-> ExchangeLists[c[i]]]] :
              c \in { d \in [1..n -> 1..Len(ExchangeLists)] :
                        \A i \in 1..(n - 1) : d[i] <= d[i + 1] } }
          : n \in 1..MaxStrategies }

\* lines 322-326: one Exchange object per strategy and listed exchange
RECURSIVE Constructed(_, _)
Constructed(strats, k) ==
  IF strats = <<>> THEN <<>>
  ELSE LET names == Head(strats).exchanges IN
       [i \in 1..Len(names) |-> [name |-> names[i], id |-> k + i]]
         \o Constructed(Tail(strats), k + Len(names))

\* mutant of ExchangeEq: object identity, as without __eq__ and __hash__
ExchangeIs(a, b) == a.id = b.id

\* lines 117-126: Exchange.__eq__ (and __hash__, which follows the name)
ExchangeEq(a, b) == a.name = b.name

\* line 327, set(exchanges): an element equal to an earlier one is dropped
RECURSIVE SetOf(_, _)
SetOf(objs, kept) ==
  IF objs = <<>> THEN kept
  ELSE SetOf(Tail(objs),
             IF \E j \in 1..Len(kept) : ExchangeEq(kept[j], Head(objs))
             THEN kept ELSE Append(kept, Head(objs)))

\* line 327, list(...): the elements of the set in any order
ListsOf(kept) ==
  { [i \in 1..Len(kept) |-> kept[p[i]]] :
      p \in { q \in [1..Len(kept) -> 1..Len(kept)] :
                \A i, j \in 1..Len(kept) : i # j => q[i] # q[j] } }

\* lines 336-341: the units submitted, in submission order
ToSubmit(strats, exs) ==
  LET E == Len(exs)
      all == [k \in 1..(Len(strats) * E) |->
                [strategy |-> ((k - 1) \div E) + 1,
                 exchange |-> exs[((k - 1) % E) + 1].name]]
  IN  SelectSeq(all, LAMBDA c : c.exchange \in Range(strats[c.strategy].exchanges))

\* a unit not started yet, and a unit whose run is over (its locals are gone;
\* nothing reads the Future, so whether it holds a result or an exception
\* is not kept)
QueuedUnit(s, e) ==
  [strategy |-> s, exchange |-> e, state |-> "queued", allocated |-> 0, left |-> 0]
Over(f) == [f EXCEPT !.state = "finished", !.allocated = 0, !.left = 0]

Finished(f) == f.state = "finished"
Running == { u \in DOMAIN futures : futures[u].state \in {"FetchingBalance", "PerPair"} }
Queued == { u \in DOMAIN futures : futures[u].state = "queued" }

\* mutant of CanStart: off by one
CanStartOneMore(n) == n <= max_workers

\* line 335: a worker thread exists for at most max_workers units at a time
CanStart(n) == n < max_workers

PoolInit ==
  /\ main_pc = "build"
  /\ strategies \in StrategyFiles
  /\ exchanges = <<>>
  /\ futures = <<>>
  /\ account = [e \in ExchangeNames |-> PoolFree]
  /\ strategy = [period |-> "daily", amount |-> PoolAmount, base_asset |-> "USDT",
                 assets |-> <<>>]
  /\ runner = [on_balance_no_available_callback |-> TRUE,
               should_execute_buy_callback |-> TRUE,
               on_order_created_callback |-> TRUE]
  /\ free = 0
  /\ pc = "idle"
  /\ idx = 0
  /\ attempt_number = 0
  /\ call_status = "idle"
  /\ call_result = <<>>
  /\ quote_balance = 0
  /\ order_pairs_to_create = <<>>
  /\ created_orders = Unbound
  /\ amount_to_buy = 0
  /\ orders = <<>>
  /\ trace = <<>>
  /\ gate_call = <<>>
  /\ no_funds_calls = <<>>
  /\ order_created_calls = <<>>
  /\ exchange_orders = 0

\* lines 322-328
BuildExchanges ==
  /\ main_pc = "build"
  /\ exchanges' \in ListsOf(SetOf(Constructed(strategies, 0), <<>>))
  /\ main_pc' = "submit"
  /\ UNCHANGED <<strategies, futures, account>>
  /\ UNCHANGED runvars

\* lines 336-341: one executor.submit; after the last one the with-block
\* waits for the pool
Submit ==
  /\ main_pc = "submit"
  /\ LET todo == ToSubmit(strategies, exchanges)
         n == Len(futures)
     IN  IF n < Len(todo)
         THEN /\ futures' = Append(futures,
                   QueuedUnit(todo[n + 1].strategy, todo[n + 1].exchange))
              /\ main_pc' = IF n + 1 = Len(todo) THEN "wait" ELSE "submit"
         ELSE /\ futures' = futures
              /\ main_pc' = "wait"
  /\ UNCHANGED <<strategies, exchanges, account>>
  /\ UNCHANGED runvars

\* line 335, leaving the with-block: shutdown(wait=True)
Shutdown ==
  /\ main_pc = "wait"
  /\ \A u \in DOMAIN futures : Finished(futures[u])
  /\ main_pc' = "exit"
  /\ UNCHANGED <<strategies, exchanges, futures, account>>
  /\ UNCHANGED runvars

\* a worker thread takes the oldest queued unit and calls runner.run
WorkerStart ==
  /\ Queued # {}
  /\ CanStart(Cardinality(Running))
  /\ LET u == CHOOSE v \in Queued : \A w \in Queued : v <= w IN
     futures' = [futures EXCEPT ![u].state = "FetchingBalance"]
  /\ UNCHANGED <<main_pc, strategies, exchanges, account>>
  /\ UNCHANGED runvars

\* lines 146-190 of run for unit u: the balance read and the allocation
UnitBalance(u) ==
  /\ futures[u].state = "FetchingBalance"
  /\ LET st == strategies[futures[u].strategy]
         bal == account[futures[u].exchange]
     IN  \/ \* get_balances raised RetryError
            futures' = [futures EXCEPT ![u] = Over(@)]
         \/ IF InsufficientFunds(bal, st.amount)
            THEN futures' = [futures EXCEPT ![u] = Over(@)]
            ELSE LET alloc == Allocate(get_pairs(st), st.amount, bal) IN
                 IF Len(alloc) > 0
                 THEN futures' = [futures EXCEPT ![u].state = "PerPair",
                                                 ![u].allocated = Len(alloc),
                                                 ![u].left = Len(alloc)]
                 ELSE futures' = [futures EXCEPT ![u] = Over(@)]
  /\ UNCHANGED <<main_pc, strategies, exchanges, account>>
  /\ UNCHANGED runvars

\* lines 190-246 of run for unit u: one allocated pair
UnitPair(u) ==
  /\ futures[u].state = "PerPair"
  /\ LET st == strategies[futures[u].strategy]
         e == futures[u].exchange
         moved == IF futures[u].left = 1
                  THEN [futures EXCEPT ![u] = Over(@)]
                  ELSE [futures EXCEPT ![u].left = @ - 1]
     IN  \/ \* the first history fetch failed: UnboundLocalError at line 207
            /\ futures[u].left = futures[u].allocated
            /\ futures' = [futures EXCEPT ![u] = Over(@)]
            /\ UNCHANGED account
         \/ \* the predicate refused the pair, get_price failed, or buy failed
            /\ futures' = moved
            /\ UNCHANGED account
         \/ \* buy was called, and the exchange filled the order
            /\ account[e] >= st.amount
            /\ futures' = moved
            /\ account' = [account EXCEPT ![e] = @ - st.amount]
  /\ UNCHANGED <<main_pc, strategies, exchanges>>
  /\ UNCHANGED runvars

PoolNext ==
  \/ BuildExchanges
  \/ Submit
  \/ Shutdown
  \/ WorkerStart
  \/ \E u \in DOMAIN futures : UnitBalance(u)
  \/ \E u \in DOMAIN futures : UnitPair(u)

PoolSpec == PoolInit /\ [][PoolNext]_vars

\* every thread that can take a step takes one
PoolFairSpec == PoolSpec /\ WF_vars(PoolNext)

\* ------------------------------------------------------------ vocabulary
Terminal == {"BalanceFailed", "NoFunds", "Done", "Crashed"}

\* run has read the balance / has computed order_pairs_to_create
BalanceRead == pc \notin {"FetchingBalance", "BalanceFailed"}
Allocated == pc \in {"FetchHistory", "FetchPrice", "SubmitOrder", "Done", "Crashed"}

Positions == DOMAIN trace

\* exchange.buy was called for position i (finished or in progress)
BuyCalled(i) == trace[i].buy # "none" \/ (pc = "SubmitOrder" /\ idx = i)
PriceCalled(i) == trace[i].price # "none" \/ (pc = "FetchPrice" /\ idx = i)
BuyCalls == Cardinality({ i \in Positions : BuyCalled(i) })

\* every allocated pair has been entered by the loop
AllVisited == \A j \in Positions : trace[j].hist # "none"

\* C1: the amount committed to the selected pairs, and the amount of all
\* buy calls of the run, never exceed the free balance the run read.
C1_CommittedWithinBalance ==
  /\ Len(order_pairs_to_create) * strategy.amount <= quote_balance
  /\ BuyCalls * strategy.amount <= quote_balance
  /\ BalanceRead => quote_balance = free

C1_Witness ==
  /\ pc = "Done"
  /\ Len(order_pairs_to_create) = 2
  /\ Len(strategy.assets) = 3
  /\ BuyCalls = 2
  /\ quote_balance > 2 * strategy.amount

\* C2: the selected list is the longest affordable prefix of get_pairs in
\* declared order; 2.5 amounts and three pairs select the first two; amount
\* 10, assets BTC, ETH and balance 15 select the first pair only and lead to
\* one buy call (exactly one once its price fetch succeeded).
C2_GreedyOrderPreserving ==
  Allocated =>
    LET pairs == get_pairs(strategy)
        n == Len(pairs)
        amt == strategy.amount
    IN  /\ \E k \in 0..n :
             /\ order_pairs_to_create = SubSeq(pairs, 1, k)
             /\ k * amt <= quote_balance
             /\ k < n => (k + 1) * amt > quote_balance
        /\ (2 * quote_balance = 5 * amt /\ n = 3)
             => order_pairs_to_create = <<pairs[1], pairs[2]>>
        /\ (amt = 10 /\ strategy.assets = <<"BTC", "ETH">> /\ quote_balance = 15)
             => /\ order_pairs_to_create = <<"BTC/USDT">>
                /\ BuyCalls <= 1
                /\ (pc = "Done" /\ trace[1].price = "ok") => BuyCalls = 1

C2_Witness ==
  /\ pc = "Done"
  /\ strategy.amount = 10
  /\ strategy.assets = <<"BTC", "ETH">>
  /\ quote_balance = 15
  /\ Len(orders) = 1

\* C3: a balance below the amount allocates nothing, calls the
\* insufficient-funds hook once (when configured) with the exchange name, the
\* balance, the amount and the quote asset, and ends the run without any
\* per-pair call; a run that funds a pair never calls the hook.
C3_NoFundsHook ==
  BalanceRead =>
    /\ quote_balance < strategy.amount =>
         /\ pc = "NoFunds"
         /\ order_pairs_to_create = <<>>
         /\ trace = <<>>
         /\ orders = <<>>
         /\ no_funds_calls =
              IF runner.on_balance_no_available_callback
              THEN << <<ExchangeName, quote_balance, strategy.amount,
                        strategy.base_asset>> >>
              ELSE <<>>
    /\ (quote_balance >= strategy.amount /\ Len(order_pairs_to_create) >= 1)
         => no_funds_calls = <<>>

C3_Witness ==
  /\ pc = "NoFunds"
  /\ quote_balance > 0
  /\ Len(no_funds_calls) = 1

\* C4: a facade call makes at most 5 attempts; it returns at the first
\* attempt that succeeds, and raises RetryError after exactly 5 failures.
C4_BoundedRetry ==
  /\ attempt_number <= 5
  /\ call_status = "calling" => attempt_number < 5
  /\ call_status = "returned" => attempt_number \in 1..5 /\ Len(call_result) = 1
  /\ call_status = "RetryError" => attempt_number = 5 /\ call_result = <<>>
  /\ call_status = "idle" => attempt_number = 0

C4_Witness ==
  /\ pc = "SubmitOrder"
  /\ call_status = "returned"
  /\ attempt_number = 5

\* C5: run never ends with an uncaught exception.
C5_NoUncaughtException == pc # "Crashed"

\* C6: a pair whose history fetch failed still gets its gate check and, when
\* the predicate is absent or answers true, its price fetch.
C6_HistoryFailureKeepsPair ==
  \A i \in Positions :
    trace[i].hist = "RetryError" =>
      /\ runner.should_execute_buy_callback => trace[i].gate # "none"
      /\ (~runner.should_execute_buy_callback \/ trace[i].gate = "true")
           => PriceCalled(i)

\* C7: the predicate receives the history fetched for the same pair, or the
\* empty history when that fetch failed.
C7_GateSeesOwnHistory ==
  gate_call # <<>> =>
    gate_call[1].orders = IF gate_call[1].fetched # <<>>
                          THEN gate_call[1].fetched[1] ELSE <<>>

\* C8: a pair the predicate refuses gets no price fetch and no buy, the run
\* still goes through every other allocated pair, and a pair whose predicate
\* is absent or answers true goes on to its price fetch.
C8_GateSkipsOnlyThatPair ==
  /\ \A i \in Positions :
       /\ trace[i].gate = "false" => ~PriceCalled(i) /\ ~BuyCalled(i)
       /\ ( /\ trace[i].hist # "none"
            /\ IF runner.should_execute_buy_callback
               THEN trace[i].gate = "true" ELSE trace[i].gate = "none" )
            => PriceCalled(i)
  /\ (pc \in Terminal /\ \E i \in Positions : trace[i].gate = "false")
       => pc = "Done" /\ AllVisited

C8_Witness ==
  /\ pc = "Done"
  /\ Len(trace) = 2
  /\ trace[1].gate = "false"
  /\ trace[2].gate = "true"
  /\ trace[2].buy = "ok"

\* C9: a buy that fails with RetryError records no order and fires no
\* order-created hook for its pair, and the run still goes through every
\* later allocated pair and ends normally.
C9_BuyFailureSkipsOnlyThatPair ==
  LET bought == { i \in Positions : trace[i].buy = "ok" } IN
  /\ Len(orders) = Cardinality(bought)
  /\ Len(order_created_calls) =
       IF runner.on_order_created_callback THEN Cardinality(bought) ELSE 0
  /\ (pc \in Terminal /\ \E i \in Positions : trace[i].buy = "RetryError")
       => pc = "Done" /\ AllVisited

C9_Witness ==
  /\ pc = "Done"
  /\ Len(trace) = 2
  /\ trace[1].buy = "RetryError"
  /\ trace[2].buy = "ok"
  /\ Len(order_created_calls) = 1

\* C10: a price fetch that fails with RetryError leads to no buy call for
\* its pair, and the run still goes through every later allocated pair.
C10_PriceFailureSkipsOnlyThatPair ==
  /\ \A i \in Positions : trace[i].price = "RetryError" => ~BuyCalled(i)
  /\ (pc \in Terminal /\ \E i \in Positions : trace[i].price = "RetryError")
       => pc = "Done" /\ AllVisited

C10_Witness ==
  /\ pc = "Done"
  /\ Len(trace) = 2
  /\ trace[1].price = "RetryError"
  /\ trace[2].buy = "ok"

\* the allocated positions whose buy returned an order, in loop order
BoughtPositions ==
  SelectSeq([i \in 1..Len(trace) |-> i], LAMBDA i : trace[i].buy = "ok")

\* C11: when get_balances fails with RetryError the run ends at once: nothing
\* is allocated, no per-pair call is made, no order is placed, no hook runs.
C11_BalanceFailureEndsRun ==
  /\ (pc = "FetchingBalance" /\ call_status = "RetryError")
       => ENABLED AfterBalance
  /\ pc = "BalanceFailed" =>
       /\ call_status = "idle"
       /\ order_pairs_to_create = <<>>
       /\ trace = <<>>
       /\ orders = <<>>
       /\ gate_call = <<>>
       /\ no_funds_calls = <<>>
       /\ order_created_calls = <<>>

C11_Witness ==
  /\ pc = "BalanceFailed"
  /\ runner.on_balance_no_available_callback
  /\ free >= strategy.amount
  /\ Len(strategy.assets) >= 1

\* C14: the order-created hook is called once per order that buy returned,
\* in order, with the exchange name and that order, and never for another
\* pair; the orders counted at the end are the successful submissions.
C14_OrderCreatedPerOrder ==
  /\ Len(orders) = Len(BoughtPositions)
  /\ \A k \in 1..Len(orders) :
       orders[k].symbol = order_pairs_to_create[BoughtPositions[k]]
  /\ Len(order_created_calls) =
       IF runner.on_order_created_callback THEN Len(orders) ELSE 0
  /\ \A k \in 1..Len(order_created_calls) :
       order_created_calls[k] = <<ExchangeName, orders[k]>>

C14_Witness ==
  /\ pc = "Done"
  /\ Len(trace) = 2
  /\ trace[1].price = "RetryError"
  /\ Len(orders) = 1
  /\ Len(order_created_calls) = 1

\* C15 (as claimed): get_pairs gives one pair per asset, in asset order, and
\* no pair twice.
C15_PairsNoDuplicates ==
  LET pairs == get_pairs(strategy) IN
  /\ Len(pairs) = Len(strategy.assets)
  /\ \A i \in 1..Len(pairs) : pairs[i] = strategy.assets[i] \o "/USDT"
  /\ \A i, j \in 1..Len(pairs) : i # j => pairs[i] # pairs[j]

\* C15 (amended): get_pairs gives one pair per asset, in asset order, and two
\* pairs are equal exactly when their assets are equal.
C15_PairsFollowAssets ==
  LET pairs == get_pairs(strategy) IN
  /\ Len(pairs) = Len(strategy.assets)
  /\ \A i \in 1..Len(pairs) : pairs[i] = strategy.assets[i] \o "/USDT"
  /\ \A i, j \in 1..Len(pairs) :
       (pairs[i] = pairs[j]) <=> (strategy.assets[i] = strategy.assets[j])
  /\ Allocated => \A i \in 1..Len(order_pairs_to_create) :
                    order_pairs_to_create[i] = strategy.assets[i] \o "/USDT"

C15_Witness ==
  /\ pc = "Done"
  /\ strategy.assets = <<"BTC", "BTC">>
  /\ order_pairs_to_create = <<"BTC/USDT", "BTC/USDT">>
  /\ Len(orders) = 2

\* C16: the balance is read before any per-pair call; a pair's price fetch
\* comes after its history fetch and gate check, its buy after its price
\* fetch succeeded, its notification after its buy; a later pair is untouched
\* until the loop has left the earlier ones.
C16_StepsInOrder ==
  /\ pc = "FetchingBalance" => trace = <<>> /\ idx = 0 /\ orders = <<>>
  /\ idx \in 0..Len(trace)
  /\ \A i \in Positions :
       /\ i > idx => trace[i] = NoTrace
       /\ (i = idx /\ pc = "FetchHistory") => trace[i] = NoTrace
       /\ trace[i].gate # "none" =>
            trace[i].hist # "none" /\ runner.should_execute_buy_callback
       /\ PriceCalled(i) =>
            /\ trace[i].hist # "none"
            /\ runner.should_execute_buy_callback => trace[i].gate = "true"
       /\ BuyCalled(i) => trace[i].price = "ok"
       /\ (pc = "FetchPrice" /\ idx = i) => trace[i].price = "none"
       /\ (pc = "SubmitOrder" /\ idx = i) => trace[i].buy = "none"
  /\ Len(order_created_calls) <= Cardinality({ i \in Positions : trace[i].buy = "ok" })

C16_Witness ==
  /\ pc = "SubmitOrder"
  /\ idx = 2
  /\ runner.should_execute_buy_callback
  /\ trace[1].buy = "ok"
  /\ Len(order_created_calls) = 1

\* C17: every run ends in BalanceFailed, NoFunds or Done.
C17_RunReachesTerminalState ==
  <>(pc \in {"BalanceFailed", "NoFunds", "Done"})

\* C18 (as claimed): whenever no pair is selected, the insufficient-funds hook
\* is called if configured and the run ends without orders.
C18_ZeroPairsCallsHook ==
  (BalanceRead /\ order_pairs_to_create = <<>>) =>
    /\ pc \in {"NoFunds", "Done"}
    /\ orders = <<>>
    /\ runner.on_balance_no_available_callback => Len(no_funds_calls) = 1

\* C18 (amended): when no pair is selected the run ends without orders; the
\* hook is called, if configured, exactly when the balance is below the
\* amount, and not when the pair list is empty and the balance suffices.
C18_ZeroPairsHookOnlyWhenShort ==
  (BalanceRead /\ order_pairs_to_create = <<>>) =>
    /\ pc \in {"NoFunds", "Done"}
    /\ orders = <<>>
    /\ Len(no_funds_calls) =
         IF runner.on_balance_no_available_callback /\ quote_balance < strategy.amount
         THEN 1 ELSE 0
    /\ pc = "NoFunds" <=> quote_balance < strategy.amount
    /\ pc = "Done" => strategy.assets = <<>>

C18_Witness ==
  /\ pc = "Done"
  /\ strategy.assets = <<>>
  /\ runner.on_balance_no_available_callback
  /\ quote_balance >= strategy.amount
  /\ no_funds_calls = <<>>

\* ------------------------------------------------- vocabulary of PoolSpec
Listed(s, e) == e \in Range(strategies[s].exchanges)
UnitsOf(s, e) ==
  { u \in DOMAIN futures : futures[u].strategy = s /\ futures[u].exchange = e }

\* two strategies on one exchange and one strategy on another
TwoSharingOneApart ==
  /\ Len(strategies) = 3
  /\ strategies[1].exchanges = <<"binance">>
  /\ strategies[2].exchanges = <<"binance">>
  /\ strategies[3].exchanges = <<"kraken">>

\* the amount the runs on exchange e have allocated and not yet submitted
Pending(e) ==
  SumOver([u \in DOMAIN futures |->
             futures[u].left * strategies[futures[u].strategy].amount],
          { u \in DOMAIN futures :
              futures[u].exchange = e /\ futures[u].state = "PerPair" })

\* C12: the Exchange objects kept for dispatch have distinct names and cover
\* every listed exchange; one run is submitted per strategy and exchange the
\* strategy lists, none otherwise; two strategies sharing an exchange and one
\* on another give 2 Exchange objects and 3 runs.
C12_DedupAndDispatch ==
  /\ main_pc \in {"submit", "wait", "exit"} =>
       /\ \A i, j \in DOMAIN exchanges :
            i # j => exchanges[i].name # exchanges[j].name
       /\ { exchanges[i].name : i \in DOMAIN exchanges }
            = UNION { Range(strategies[s].exchanges) : s \in DOMAIN strategies }
       /\ TwoSharingOneApart => Len(exchanges) = 2
       /\ \A s \in DOMAIN strategies, e \in ExchangeNames :
            Cardinality(UnitsOf(s, e)) <= IF Listed(s, e) THEN 1 ELSE 0
  /\ main_pc \in {"wait", "exit"} =>
       /\ \A s \in DOMAIN strategies, e \in ExchangeNames :
            Cardinality(UnitsOf(s, e)) = IF Listed(s, e) THEN 1 ELSE 0
       /\ TwoSharingOneApart => Len(futures) = 3

C12_Witness ==
  /\ main_pc = "exit"
  /\ TwoSharingOneApart
  /\ Len(exchanges) = 2
  /\ Len(futures) = 3

\* C13: never more than 5 runs are executing at once, and every submitted
\* unit is run to its end, also when other units end early or raise.
C13_PoolBoundAndProgress ==
  /\ [](Cardinality(Running) <= 5)
  /\ <>(main_pc = "exit" /\ \A u \in DOMAIN futures : Finished(futures[u]))
  /\ [](main_pc = "exit" =>
          /\ Len(futures) = Len(ToSubmit(strategies, exchanges))
          /\ \A u \in DOMAIN futures : Finished(futures[u]))

C13_Witness ==
  /\ Cardinality(Running) = 5
  /\ Queued # {}
  /\ main_pc = "wait"

C20_OneOrderPerPair == exchange_orders <= 1
====
